---- MODULE Spec2Model ----
(***************************************************************************)
(* Model of backend/main.py, the SAS Viya JES bridge: the POST /run        *)
(* request handler, i.e. the four field validators of RunSASRequest as     *)
(* pydantic runs them (in field order), the date parser parse_ddmmmyyyy,   *)
(* and run_sas_job's row computation and response assembly.                *)
(*                                                                         *)
(* A Python str is a sequence of characters; a character is a one-element  *)
(* TLA+ string.  Three characters are written by name: "TAB" is U+0009,    *)
(* "sup2" is U+00B2 (SUPERSCRIPT TWO, for which str.isdigit() is True and  *)
(* int() raises ValueError), "eszett" is U+00DF (whose str.upper() is the  *)
(* two characters "SS").                                                   *)
(*                                                                         *)
(* A Python int or float is a record [hi, lo] standing for                 *)
(* hi * Base + lo, so that values around 2^53, where a double stops        *)
(* holding every integer, fit the 32-bit integers of TLC.                   *)
(***************************************************************************)
EXTENDS Integers, Sequences, FiniteSets, TLC

VARIABLES pc, payload, values, errors, resp

vars == <<pc, payload, values, errors, resp>>

(***************************************************************************)
(* Bounds of the request payloads explored.                                *)
(***************************************************************************)
\* longest run of whitespace put around an input string
MaxPad == 1
\* largest number of comma-separated pieces in a generated lcr_lines input
MaxPieces == 2

(***************************************************************************)
(* Characters and str methods.                                             *)
(***************************************************************************)
SetMin(S) == CHOOSE x \in S : \A y \in S : x <= y
SetMax(S) == CHOOSE x \in S : \A y \in S : x >= y

DecimalDigits == <<"0", "1", "2", "3", "4", "5", "6", "7", "8", "9">>
LowerLetters ==
    <<"a", "b", "c", "d", "e", "f", "g", "h", "i", "j", "k", "l", "m",
      "n", "o", "p", "q", "r", "s", "t", "u", "v", "w", "x", "y", "z">>
UpperLetters ==
    <<"A", "B", "C", "D", "E", "F", "G", "H", "I", "J", "K", "L", "M",
      "N", "O", "P", "Q", "R", "S", "T", "U", "V", "W", "X", "Y", "Z">>

Range(s) == {s[i] : i \in 1..Len(s)}
IndexOf(s, c) == CHOOSE i \in 1..Len(s) : s[i] = c

\* characters str.strip() removes
Whitespace == {" ", "TAB"}
\* characters int() and the regular expression class \d of strptime accept
IsDecimal(c) == c \in Range(DecimalDigits)
DigitVal(c) == IndexOf(DecimalDigits, c) - 1
\* str.isdigit() of one character: the decimal digits and also U+00B2
IsDigitChar(c) == IsDecimal(c) \/ c = "sup2"

\* str.strip()
Strip(s) ==
    LET keep == {i \in 1..Len(s) : s[i] \notin Whitespace}
    IN  IF keep = {} THEN <<>> ELSE SubSeq(s, SetMin(keep), SetMax(keep))

\* str.upper() and str.lower() of one character, as a string
UpperChar(c) ==
    IF c \in Range(LowerLetters) THEN <<UpperLetters[IndexOf(LowerLetters, c)]>>
    ELSE IF c = "eszett" THEN <<"S", "S">>
    ELSE <<c>>
LowerChar(c) ==
    IF c \in Range(UpperLetters) THEN LowerLetters[IndexOf(UpperLetters, c)]
    ELSE c

RECURSIVE Upper(_)
Upper(s) == IF s = <<>> THEN <<>> ELSE UpperChar(Head(s)) \o Upper(Tail(s))

Lower(s) == [i \in 1..Len(s) |-> LowerChar(s[i])]

\* str.split(","): always at least one piece, empty pieces kept
RECURSIVE Split(_)
Split(s) ==
    LET commas == {i \in 1..Len(s) : s[i] = ","}
    IN  IF commas = {} THEN <<s>>
        ELSE LET i == SetMin(commas)
             IN  <<SubSeq(s, 1, i - 1)>> \o Split(SubSeq(s, i + 1, Len(s)))

\* ",".join(parts)
RECURSIVE Join(_)
Join(parts) ==
    IF parts = <<>> THEN <<>>
    ELSE IF Len(parts) = 1 THEN parts[1]
    ELSE parts[1] \o <<",">> \o Join(Tail(parts))

\* str.isdigit(): every character a digit and at least one character
IsDigit(p) == p # <<>> /\ \A i \in 1..Len(p) : IsDigitChar(p[i])

(***************************************************************************)
(* Numbers.  [hi, lo] stands for hi * Base + lo with 0 <= lo < Base when   *)
(* hi > 0, and for lo alone (of either sign) when hi = 0.                  *)
(***************************************************************************)
Base == 10000 * 10000

Num(n) == [hi |-> 0, lo |-> n]
Norm(h, l) == [hi |-> h + (l \div Base), lo |-> l % Base]
\* v + a for a small non-negative a
AddSmall(v, a) == Norm(v.hi, v.lo + a)
\* v * 10 + d
Times10Plus(v, d) == Norm(v.hi * 10, v.lo * 10 + d)
Times100(v) == Times10Plus(Times10Plus(v, 0), 0)
Less(a, b) == a.hi < b.hi \/ (a.hi = b.hi /\ a.lo < b.lo)
\* a - b as an integer, for a and b less than Base apart
Minus(a, b) == (a.hi - b.hi) * Base + (a.lo - b.lo)

\* int(x) of a string of decimal digits
RECURSIVE IntOfDigits(_, _)
IntOfDigits(acc, p) ==
    IF p = <<>> THEN acc
    ELSE IntOfDigits(Times10Plus(acc, DigitVal(Head(p))), Tail(p))

\* whether int(x) raises ValueError: x holds a character that is no decimal digit
IntRaises(p) == p = <<>> \/ \E i \in 1..Len(p) : ~IsDecimal(p[i])
IntOf(p) == IntOfDigits(Num(0), p)

\* 2^53 .. 2^57: from 2^(52+k) on, a double holds only the multiples of 2^k
Pow2From53 ==
    << [hi |-> 90071992,   lo |-> 54740992],
       [hi |-> 180143985,  lo |-> 9481984],
       [hi |-> 360287970,  lo |-> 18963968],
       [hi |-> 720575940,  lo |-> 37927936],
       [hi |-> 1441151880, lo |-> 75855872] >>

\* the spacing of doubles at the non-negative integer v (v < 2^57)
Spacing(v) ==
    IF ~Less(Pow2From53[1], v) THEN 1
    ELSE IF ~Less(Pow2From53[2], v) THEN 2
    ELSE IF ~Less(Pow2From53[3], v) THEN 4
    ELSE IF ~Less(Pow2From53[4], v) THEN 8
    ELSE 16

\* the double nearest to the non-negative integer v, ties to the even mantissa:
\* the result of float(v), and of a float addition whose exact sum is v
RoundToDouble(v) ==
    LET q    == Spacing(v)
        r    == v.lo % q
        down == Norm(v.hi, v.lo - r)
        up   == Norm(v.hi, v.lo - r + q)
    IN  IF r = 0 THEN v
        ELSE IF 2 * r < q THEN down
        ELSE IF 2 * r > q THEN up
        ELSE IF down.lo % (2 * q) = 0 THEN down ELSE up

\* float(n) of an int, and x + y of two floats holding integers (y small)
Float(n) == RoundToDouble(n)
FloatAdd(x, y) == RoundToDouble(AddSmall(x, y))

(***************************************************************************)
(* datetime: the calendar of datetime.strptime and date.toordinal.         *)
(***************************************************************************)
\* the month abbreviations of the C locale, lower-cased as strptime holds them
MonthAbbr ==
    << <<"j","a","n">>, <<"f","e","b">>, <<"m","a","r">>, <<"a","p","r">>,
       <<"m","a","y">>, <<"j","u","n">>, <<"j","u","l">>, <<"a","u","g">>,
       <<"s","e","p">>, <<"o","c","t">>, <<"n","o","v">>, <<"d","e","c">> >>

IsLeap(y) == y % 4 = 0 /\ (y % 100 # 0 \/ y % 400 = 0)
DaysInMonth(y, m) ==
    IF m = 2 THEN (IF IsLeap(y) THEN 29 ELSE 28)
    ELSE IF m \in {4, 6, 9, 11} THEN 30 ELSE 31
DaysBeforeYear(year) ==
    LET y == year - 1
    IN  y * 365 + (y \div 4) - (y \div 100) + (y \div 400)
RECURSIVE DaysBeforeMonth(_, _)
DaysBeforeMonth(y, m) ==
    IF m = 1 THEN 0 ELSE DaysBeforeMonth(y, m - 1) + DaysInMonth(y, m - 1)
\* date.toordinal(): 1 for 1 January of year 1
ToOrdinal(dt) == DaysBeforeYear(dt.year) + DaysBeforeMonth(dt.year, dt.month) + dt.day

\* value of a short string of decimal digits (a day, a year)
RECURSIVE SmallInt(_, _)
SmallInt(acc, p) ==
    IF p = <<>> THEN acc ELSE SmallInt(acc * 10 + DigitVal(Head(p)), Tail(p))

AllDecimal(p) == \A i \in 1..Len(p) : IsDecimal(p[i])

NoDate == [ok |-> FALSE, year |-> 0, month |-> 0, day |-> 0]

\* datetime.strptime(t, "%d%b%Y"): %d is one or two digits naming 1..31 (two are
\* tried first), %b a month abbreviation compared without regard to case, %Y
\* four digits; the whole of t must be used, and the date must exist (year >= 1)
Strptime(t) ==
    LET n == Len(t)
    IN  IF n \notin {8, 9} THEN NoDate
        ELSE
          LET dd == SubSeq(t, 1, n - 7)
              bb == Lower(SubSeq(t, n - 6, n - 4))
              yy == SubSeq(t, n - 3, n)
          IN  IF ~AllDecimal(dd) \/ ~AllDecimal(yy) \/ bb \notin Range(MonthAbbr)
                THEN NoDate
              ELSE
                LET d == SmallInt(0, dd)
                    m == IndexOf(MonthAbbr, bb)
                    y == SmallInt(0, yy)
                IN  IF /\ d >= 1
                       /\ (Len(dd) = 1 => dd[1] # "0")
                       /\ y >= 1
                       /\ d <= DaysInMonth(y, m)
                      THEN [ok |-> TRUE, year |-> y, month |-> m, day |-> d]
                      ELSE NoDate

\* the detail of the HTTPException parse_ddmmmyyyy raises, holding value as given
DateDetail(value) ==
    <<"Invalid date format for '">> \o value
        \o <<"'. Use DDMMMYYYY (e.g., 31AUG2019)">>

\* parse_ddmmmyyyy without the strip() of its argument
parse_ddmmmyyyy_NoStrip(value) == Strptime(value)

\* parse_ddmmmyyyy(value): the date, or ok = FALSE where it raises HTTPException
parse_ddmmmyyyy(value) == Strptime(Strip(value))

(***************************************************************************)
(* RunSASRequest: the four field validators.  A validator returns          *)
(* [kind |-> "ok", value], or what it raises: [kind |-> "HTTPException",   *)
(* status_code, detail] or [kind |-> "ValueError", msg].                   *)
(***************************************************************************)
\* Optional[str]
None == [some |-> FALSE, val |-> <<>>]
Some(s) == [some |-> TRUE, val |-> s]

Ok(v) == [kind |-> "ok", value |-> v]
HTTPException(code, detail) ==
    [kind |-> "HTTPException", status_code |-> code, detail |-> detail]
ValueError(msg) == [kind |-> "ValueError", msg |-> msg]

\* what a call of parse_ddmmmyyyy raises, if it raises
ParseRaises(value) == HTTPException(400, DateDetail(value))

\* validate_report_date returning the stripped string instead of v
validate_report_date_Stripped(v) ==
    IF parse_ddmmmyyyy(v).ok THEN Ok(Strip(v)) ELSE ParseRaises(v)

validate_report_date(v) ==
    IF parse_ddmmmyyyy(v).ok THEN Ok(v) ELSE ParseRaises(v)

validate_previous_date(v) ==
    IF ~v.some \/ Strip(v.val) = <<>> THEN Ok(None)
    ELSE IF parse_ddmmmyyyy(v.val).ok THEN Ok(v) ELSE ParseRaises(v.val)

\* [p.strip() for p in v.split(",") if p.strip()]
StrippedParts(v) ==
    LET pieces == Split(v)
    IN  [i \in 1..Len(pieces) |-> Strip(pieces[i])]
NonEmptyParts(v) == SelectSeq(StrippedParts(v), LAMBDA p : p # <<>>)

\* validate_lcr_lines raising HTTPException(400) instead of ValueError
validate_lcr_lines_HTTP(v) ==
    LET parts == NonEmptyParts(v)
    IN  IF parts = <<>> THEN HTTPException(400, <<"At least one LCR line is required">>)
        ELSE IF \E i \in 1..Len(parts) : ~IsDigit(parts[i])
          THEN HTTPException(400, <<"LCR lines must be comma-separated integers">>)
        ELSE Ok(Join(parts))

validate_lcr_lines(v) ==
    LET parts == NonEmptyParts(v)
    IN  IF parts = <<>> THEN ValueError(<<"At least one LCR line is required">>)
        ELSE IF \E i \in 1..Len(parts) : ~IsDigit(parts[i])
          THEN ValueError(<<"LCR lines must be comma-separated integers">>)
        ELSE Ok(Join(parts))

\* validate_country without upper()
validate_country_NoUpper(v) ==
    LET vv == Strip(v)
    IN  IF Len(vv) \notin {2, 3}
          THEN ValueError(<<"Country must be ISO code (2 or 3 letters)">>)
        ELSE Ok(vv)

validate_country(v) ==
    LET vv == Upper(Strip(v))
    IN  IF Len(vv) \notin {2, 3}
          THEN ValueError(<<"Country must be ISO code (2 or 3 letters)">>)
        ELSE Ok(vv)

(***************************************************************************)
(* run_sas_job: rows and response of a validated request.                  *)
(***************************************************************************)
\* truth value of an Optional[str]: None and "" are false
Truthy(o) == o.some /\ o.val # <<>>

SASRow(line, metric, value) == [line |-> line, metric |-> metric, value |-> value]

\* the adjustment taken modulo 30
Adj_Mod30(d) == ToOrdinal(d) % 30

\* (d.toordinal() % 31) * 1.0
Adj(d) == ToOrdinal(d) % 31

\* the rows of one line without the Delta row
RowsOfLine_NoDelta(ln, rd, pd) ==
    LET base == Float(Times100(ln))
    IN  <<SASRow(ln, "Current", FloatAdd(base, ToOrdinal(rd) % 31))>>
        \o (IF pd.ok
              THEN <<SASRow(ln, "Previous", FloatAdd(base, ToOrdinal(pd) % 31))>>
              ELSE <<>>)

\* the rows one line number appends; pd.ok is the truth of "if pd"
RowsOfLine(ln, rd, pd) ==
    LET base     == Float(Times100(ln))
        adj      == Adj(rd)
        prev_adj == IF pd.ok THEN Adj(pd) ELSE 0
    IN  <<SASRow(ln, "Current", FloatAdd(base, adj))>>
        \o (IF pd.ok
              THEN <<SASRow(ln, "Previous", FloatAdd(base, prev_adj)),
                     SASRow(ln, "Delta", Num(adj - prev_adj))>>
              ELSE <<>>)

\* the loop over the distinct lines only: a line seen before is skipped
RECURSIVE Rows_Dedup(_, _, _)
Rows_Dedup(lines, rd, pd) ==
    IF lines = <<>> THEN <<>>
    ELSE LET n == Len(lines)
         IN  Rows_Dedup(SubSeq(lines, 1, n - 1), rd, pd)
             \o (IF \E i \in 1..(n - 1) : lines[i] = lines[n]
                   THEN <<>> ELSE RowsOfLine(lines[n], rd, pd))

\* the loop over lines, in order
RECURSIVE Rows(_, _, _)
Rows(lines, rd, pd) ==
    IF lines = <<>> THEN <<>>
    ELSE RowsOfLine(Head(lines), rd, pd) \o Rows(Tail(lines), rd, pd)

Columns == <<"line", "metric", "value">>

RunSASResponse(rows, p) ==
    [status  |-> 200,
     columns |-> Columns,
     rows    |-> rows,
     meta    |-> [report_date   |-> p.report_date,
                  previous_date |-> p.previous_date,
                  lcr_lines     |-> p.lcr_lines,
                  country       |-> p.country]]

\* the response to an HTTPException: its status code and detail
HTTPErrorResponse(e) == [status |-> e.status_code, detail |-> e.detail]
\* the response to a request whose validators raised ValueError
ValidationErrorResponse(errs) == [status |-> 422, detail |-> errs]
\* the response to any other exception escaping the handler
ServerErrorResponse == [status |-> 500, detail |-> <<"Internal Server Error">>]

\* the body of run_sas_job on the validated request p
run_sas_job(p) ==
    LET rd     == parse_ddmmmyyyy(p.report_date)
        pd     == IF Truthy(p.previous_date)
                    THEN parse_ddmmmyyyy(p.previous_date.val) ELSE NoDate
        tokens == Split(p.lcr_lines)
    IN  IF ~rd.ok THEN HTTPErrorResponse(ParseRaises(p.report_date))
        ELSE IF Truthy(p.previous_date) /\ ~pd.ok
          THEN HTTPErrorResponse(ParseRaises(p.previous_date.val))
        ELSE IF \E i \in 1..Len(tokens) : IntRaises(tokens[i])
          THEN ServerErrorResponse
        ELSE
          LET lines == [i \in 1..Len(tokens) |-> IntOf(tokens[i])]
          IN  RunSASResponse(Rows(lines, rd, pd), p)

(***************************************************************************)
(* Request payloads.                                                       *)
(***************************************************************************)
Spaces(n) == [i \in 1..n |-> " "]
Tabs(n) == [i \in 1..n |-> "TAB"]
\* s with n spaces before and n tabs after
Wrap(s, n) == Spaces(n) \o s \o Tabs(n)

ReportDateCores ==
    { <<"3","1","A","U","G","2","0","1","9">>,
      <<"1","A","U","G","2","0","1","9">>,
      <<"2","9","F","e","b","2","0","2","0">>,
      <<"3","1","a","u","g","2","0","1","9">>,
      <<"2","9","F","E","B","2","0","1","9">>,
      <<"3","1","-","A","U","G","-","2","0","1","9">>,
      <<"3","1","A","U","G","0","0","0","0">>,
      <<"3","1","A","U","X","2","0","1","9">>,
      <<"3","x","A","U","G","2","0","1","9">>,
      <<"3","1","A","U","G","2","0","1">> }

PreviousDateCores ==
    { <<"3","1","J","U","L","2","0","1","9">>,
      <<"7","s","e","p","2","0","1","9">>,
      <<"3","1","-","J","U","L","-","2","0","1","9">> }

LinePieces == { <<"6">>, <<"1","7">>, <<>> }

SpecialLines ==
    { <<"6",",","a","b","c">>,
      <<" ","6"," ",","," ","1","7","TAB">>,
      <<"1"," ","2">>,
      <<"0","0","7">>,
      <<"sup2">>,
      <<"9","0","0","7","1","9","9","2","5","4","7","4","1","0">>,
      <<" ",",","TAB">> }

CountryCores ==
    { <<"S","G">>, <<"s","g">>, <<"s">>, <<"u","s","a">>, <<"1","2">>,
      <<"eszett">>, <<"a","b","c","d">> }

\* the date strings also sent with whitespace around them
PaddedDateCores ==
    { <<"3","1","A","U","G","2","0","1","9">>,
      <<"3","1","-","A","U","G","-","2","0","1","9">> }

ReportDateInputs ==
    ReportDateCores \cup {Wrap(c, n) : c \in PaddedDateCores, n \in 1..MaxPad}
PreviousDateInputs ==
    {None} \cup {Some(Spaces(n)) : n \in 0..MaxPad}
           \cup {Some(c) : c \in PreviousDateCores}
           \cup {Some(Wrap(<<"3","0","J","U","N","2","0","1","9">>, n)) : n \in 1..MaxPad}
LcrLinesInputs ==
    {Join(ps) : ps \in UNION {[1..k -> LinePieces] : k \in 1..MaxPieces}}
        \cup SpecialLines
CountryInputs ==
    CountryCores \cup {Wrap(<<"s","g">>, n) : n \in 1..MaxPad}

(***************************************************************************)
(* The handling of POST /run.  pydantic validates the fields in the order  *)
(* of their declaration; a ValueError is collected and validation goes on, *)
(* any other exception (the HTTPException of the date parser) leaves the   *)
(* validation at once.                                                     *)
(***************************************************************************)
NoPayload ==
    [report_date |-> <<>>, previous_date |-> None, lcr_lines |-> <<>>, country |-> <<>>]
NoResponse == [status |-> 0]
NoValues == [f \in {} |-> <<>>]

Init ==
    /\ pc = "idle"
    /\ payload = NoPayload
    /\ values = NoValues
    /\ errors = <<>>
    /\ resp = NoResponse

\* a request body arrives
Receive ==
    /\ pc = "idle"
    /\ \E rd \in ReportDateInputs, pd \in PreviousDateInputs,
          ll \in LcrLinesInputs, co \in CountryInputs :
          payload' = [report_date |-> rd, previous_date |-> pd,
                      lcr_lines |-> ll, country |-> co]
    /\ pc' = "report_date"
    /\ UNCHANGED <<values, errors, resp>>

\* one field's validator runs; after follows on ok or ValueError
ValidateField(field, result, after) ==
    /\ pc = field
    /\ CASE result.kind = "ok" ->
              /\ values' = (field :> result.value) @@ values
              /\ pc' = after
              /\ UNCHANGED <<errors, resp>>
         [] result.kind = "ValueError" ->
              /\ errors' = Append(errors, [loc |-> field, msg |-> result.msg])
              /\ pc' = after
              /\ UNCHANGED <<values, resp>>
         [] result.kind = "HTTPException" ->
              /\ resp' = HTTPErrorResponse(result)
              /\ pc' = "respond"
              /\ UNCHANGED <<values, errors>>
    /\ UNCHANGED payload

ValidateReportDate ==
    ValidateField("report_date", validate_report_date(payload.report_date),
                  "previous_date")
ValidatePreviousDate ==
    ValidateField("previous_date", validate_previous_date(payload.previous_date),
                  "lcr_lines")
ValidateLcrLines ==
    ValidateField("lcr_lines", validate_lcr_lines(payload.lcr_lines), "country")
ValidateCountry ==
    ValidateField("country", validate_country(payload.country), "validated")

\* the model could not be built: the collected errors are the response
RejectInvalid ==
    /\ pc = "validated"
    /\ errors # <<>>
    /\ resp' = ValidationErrorResponse(errors)
    /\ pc' = "respond"
    /\ UNCHANGED <<payload, values, errors>>

\* the handler runs on the validated model
RunSasJob ==
    /\ pc = "validated"
    /\ errors = <<>>
    /\ resp' = run_sas_job(values)
    /\ pc' = "respond"
    /\ UNCHANGED <<payload, values, errors>>

\* the response is sent; nothing of the request is kept
SendResponse ==
    /\ pc = "respond"
    /\ pc' = "idle"
    /\ payload' = NoPayload
    /\ values' = NoValues
    /\ errors' = <<>>
    /\ resp' = NoResponse

Next ==
    \/ Receive
    \/ ValidateReportDate
    \/ ValidatePreviousDate
    \/ ValidateLcrLines
    \/ ValidateCountry
    \/ RejectInvalid
    \/ RunSasJob
    \/ SendResponse

Spec == Init /\ [][Next]_vars

(***************************************************************************)
(* Vocabulary of the properties.                                           *)
(***************************************************************************)
Fields == {"report_date", "previous_date", "lcr_lines", "country"}

\* the response of the request in hand is decided
Answered == pc = "respond"
\* every validator of the request in hand returned a value
AllAccepted == DOMAIN values = Fields
\* some validator of the request in hand raised
ValidationFailed == Answered /\ ~AllAccepted

Blank(s) == \A i \in 1..Len(s) : s[i] \in Whitespace
\* previous_date is absent or blank
PreviousNotProvided == ~payload.previous_date.some \/ Blank(payload.previous_date.val)

\* the pieces between the commas of s, counted by its commas
CommaCount(s) == Cardinality({i \in 1..Len(s) : s[i] = ","})
\* the pieces of an lcr_lines input that are not blank
Pieces(s) == SelectSeq(Split(s), LAMBDA p : ~Blank(p))
\* every character of p is one of 0..9
OnlyDecimalDigits(p) == \A i \in 1..Len(p) : p[i] \in Range(DecimalDigits)

\* a request of the data model: all four fields accepted, and the LCR lines
\* decimal digit strings
ValidRequest ==
    /\ Answered
    /\ AllAccepted
    /\ \A i \in 1..Len(Pieces(payload.lcr_lines)) :
          OnlyDecimalDigits(Strip(Pieces(payload.lcr_lines)[i]))

\* the messages of the failures
MsgNoLine == <<"At least one LCR line is required">>
MsgNotInteger == <<"LCR lines must be comma-separated integers">>
MsgCountry == <<"Country must be ISO code (2 or 3 letters)">>
MsgDate(original) ==
    <<"Invalid date format for '">> \o original
        \o <<"'. Use DDMMMYYYY (e.g., 31AUG2019)">>

\* the messages a response carries
Body ==
    IF resp.status = 400 THEN {resp.detail}
    ELSE IF resp.status = 422 THEN {resp.detail[i].msg : i \in 1..Len(resp.detail)}
    ELSE {}

\* what each validator does with the field of the request in hand
Outcome(f) ==
    CASE f = "report_date"   -> validate_report_date(payload.report_date)
      [] f = "previous_date" -> validate_previous_date(payload.previous_date)
      [] f = "lcr_lines"     -> validate_lcr_lines(payload.lcr_lines)
      [] f = "country"       -> validate_country(payload.country)
MessageOf(f) ==
    IF Outcome(f).kind = "HTTPException" THEN Outcome(f).detail ELSE Outcome(f).msg
Failing == {f \in Fields : Outcome(f).kind # "ok"}

(***************************************************************************)
(* C1  Status and body of a rejected request.                              *)
(***************************************************************************)
\* C1 as stated: a request with a validation failure is answered with status
\* 400 and a body holding the message of a failure; no other status occurs.
C1_All400 ==
    ValidationFailed =>
        /\ resp.status = 400
        /\ \E f \in Failing : MessageOf(f) \in Body

\* C1 as amended: a rejected request is answered 400 exactly when one of its dates
\* is malformed, the body then being the date parser's message for the first
\* malformed date field; otherwise it is answered 422 and the body holds the
\* messages of exactly the failing fields among lcr_lines and country.  No
\* validation failure yields another status.
C1_ClientError ==
    ValidationFailed =>
        LET dates == Failing \cap {"report_date", "previous_date"}
            first == IF "report_date" \in dates THEN "report_date" ELSE "previous_date"
        IN  /\ Failing # {}
            /\ resp.status \in {400, 422}
            /\ resp.status = 400 <=> dates # {}
            /\ resp.status = 400 => Body = {MessageOf(first)}
            /\ resp.status = 422 => Body = {MessageOf(f) : f \in Failing}

\* a request with both lcr_lines and country failing has been answered
C1_Witness ==
    /\ ValidationFailed
    /\ resp.status = 422
    /\ Body = {MsgNoLine, MsgCountry}

(***************************************************************************)
(* C2  No server fault once the validators passed.                         *)
(***************************************************************************)
\* C2 as stated: a request all four validators accepted is answered with the
\* success response.
C2_NoServerFault == (Answered /\ AllAccepted) => resp.status = 200

(***************************************************************************)
(* C3  Number of rows.                                                     *)
(***************************************************************************)
\* C3: a valid request is answered with (1 if previous_date was not provided,
\* else 3) rows for each token of the normalized lcr_lines.
C3_RowCount ==
    ValidRequest =>
        /\ resp.status = 200
        /\ Len(resp.rows) =
             (IF PreviousNotProvided THEN 1 ELSE 3) * (CommaCount(values.lcr_lines) + 1)

\* two lines with a previous date: six rows
C3_Witness ==
    /\ ValidRequest
    /\ ~PreviousNotProvided
    /\ CommaCount(values.lcr_lines) = 1
    /\ Len(resp.rows) = 6

(***************************************************************************)
(* C4  Order of the rows.                                                  *)
(***************************************************************************)
\* the metrics of one line
MetricsOfLine == IF PreviousNotProvided THEN <<"Current">>
                 ELSE <<"Current", "Previous", "Delta">>

\* C4: the rows of a valid request come line by line in the order of the input,
\* duplicates kept, each line with Current, Previous, Delta when previous_date
\* was supplied and with Current alone when it was not.
C4_RowOrder ==
    ValidRequest =>
        LET toks == Pieces(payload.lcr_lines)
            g    == Len(MetricsOfLine)
        IN  /\ resp.status = 200
            /\ Len(resp.rows) = g * Len(toks)
            /\ \A i \in 1..Len(toks) : \A j \in 1..g :
                  /\ resp.rows[(i - 1) * g + j].line = IntOf(Strip(toks[i]))
                  /\ resp.rows[(i - 1) * g + j].metric = MetricsOfLine[j]

\* the same line given twice, with a previous date
C4_Witness ==
    /\ ValidRequest
    /\ ~PreviousNotProvided
    /\ Len(resp.rows) = 6
    /\ resp.rows[1].line = resp.rows[4].line
    /\ resp.rows[6].metric = "Delta"

(***************************************************************************)
(* C5  Values of the rows.                                                 *)
(***************************************************************************)
\* the date of a date string of the request, and its ordinal modulo 31
ReportDate == parse_ddmmmyyyy(payload.report_date)
PreviousDate == parse_ddmmmyyyy(payload.previous_date.val)
Mod31(d) == ToOrdinal(d) % 31

\* the rows of the i-th line of a response
CurrentRow(i) == resp.rows[(i - 1) * Len(MetricsOfLine) + 1]
PreviousRow(i) == resp.rows[(i - 1) * Len(MetricsOfLine) + 2]
DeltaRow(i) == resp.rows[(i - 1) * Len(MetricsOfLine) + 3]

\* ln * 100 + 30 is at most 2^53: every value of the line is a double
SmallLine(ln) == ~Less(Pow2From53[1], AddSmall(Times100(ln), 30))

\* the values the claim gives the rows of the i-th line
ValuesAsClaimed(i) ==
    LET ln == IntOf(Strip(Pieces(payload.lcr_lines)[i]))
    IN  /\ Mod31(ReportDate) \in 0..30
        /\ CurrentRow(i).value = AddSmall(Times100(ln), Mod31(ReportDate))
        /\ ~PreviousNotProvided =>
              /\ Mod31(PreviousDate) \in 0..30
              /\ PreviousRow(i).value = AddSmall(Times100(ln), Mod31(PreviousDate))
              /\ DeltaRow(i).value = Num(Mod31(ReportDate) - Mod31(PreviousDate))
              /\ DeltaRow(i).value.lo = Minus(CurrentRow(i).value, PreviousRow(i).value)

LcrLinesDone == pc \in {"country", "validated"}
LcrError(msg) == \E i \in 1..Len(errors) : errors[i] = [loc |-> "lcr_lines", msg |-> msg]

\* C6 as stated: the input fails with "At least one LCR line is required" exactly
\* when no piece is left after trimming, with "LCR lines must be comma-separated
\* integers" exactly when a piece that is left holds a character other than
\* 0..9, and otherwise the trimmed pieces joined by commas are stored.
C6_DigitsOnly ==
    LcrLinesDone =>
        LET ps  == Pieces(payload.lcr_lines)
            bad == \E i \in 1..Len(ps) : ~OnlyDecimalDigits(Strip(ps[i]))
        IN  /\ LcrError(MsgNoLine) <=> ps = <<>>
            /\ LcrError(MsgNotInteger) <=> bad
            /\ (ps # <<>> /\ ~bad) =>
                  /\ "lcr_lines" \in DOMAIN values
                  /\ values.lcr_lines = Join([i \in 1..Len(ps) |-> Strip(ps[i])])

(***************************************************************************)
(* C7  The date parser.                                                    *)
(***************************************************************************)
MonthsUpper ==
    << <<"J","A","N">>, <<"F","E","B">>, <<"M","A","R">>, <<"A","P","R">>,
       <<"M","A","Y">>, <<"J","U","N">>, <<"J","U","L">>, <<"A","U","G">>,
       <<"S","E","P">>, <<"O","C","T">>, <<"N","O","V">>, <<"D","E","C">> >>
MonthLengths == <<31, 28, 31, 30, 31, 30, 31, 31, 30, 31, 30, 31>>

\* day d of month m of year y exists
CalendarDate(d, m, y) ==
    /\ y >= 1
    /\ d >= 1
    /\ d <= MonthLengths[m]
            + (IF m = 2 /\ y % 4 = 0 /\ (y % 100 # 0 \/ y % 400 = 0) THEN 1 ELSE 0)

\* the month letters as compared: as they are, or without regard to case
MonthLetters(t, dayLen, anyCase) ==
    IF anyCase THEN Upper(SubSeq(t, dayLen + 1, dayLen + 3))
    ELSE SubSeq(t, dayLen + 1, dayLen + 3)

\* t is a day of dayLen digits, a month abbreviation and a year of four digits,
\* naming a date
DateShape(t, dayLen, anyCase) ==
    /\ Len(t) = dayLen + 7
    /\ OnlyDecimalDigits(SubSeq(t, 1, dayLen))
    /\ MonthLetters(t, dayLen, anyCase) \in Range(MonthsUpper)
    /\ OnlyDecimalDigits(SubSeq(t, dayLen + 4, dayLen + 7))
    /\ CalendarDate(SmallInt(0, SubSeq(t, 1, dayLen)),
                    IndexOf(MonthsUpper, MonthLetters(t, dayLen, anyCase)),
                    SmallInt(0, SubSeq(t, dayLen + 4, dayLen + 7)))

\* DDMMMYYYY with the month in capitals
StrictDate(t) == DateShape(t, 2, FALSE)
\* D or DD, the month in any case
LenientDate(t) ==
    \/ DateShape(t, 2, TRUE)
    \/ DateShape(t, 1, TRUE) /\ t[1] # "0"

\* the parser has run on report_date, and what it did
ReportDateAccepted == "report_date" \in DOMAIN values
ReportDateRejected == Answered /\ "report_date" \notin DOMAIN values
\* the parser has run on a previous_date that is given and not blank
PreviousDateParsed == "report_date" \in DOMAIN values /\ ~PreviousNotProvided
PreviousDateAccepted == PreviousDateParsed /\ "previous_date" \in DOMAIN values
PreviousDateRejected ==
    PreviousDateParsed /\ Answered /\ "previous_date" \notin DOMAIN values

RejectedWith(original) == resp = [status |-> 400, detail |-> MsgDate(original)]

\* C7 as stated: a date string is accepted only if, stripped, it is a two-digit
\* day, a month abbreviation in capitals and a four-digit year naming a date;
\* every other string is rejected with the message holding the original value.
C7_StrictFormat ==
    /\ ReportDateAccepted => StrictDate(Strip(payload.report_date))
    /\ ReportDateRejected => RejectedWith(payload.report_date)
    /\ PreviousDateAccepted => StrictDate(Strip(payload.previous_date.val))
    /\ PreviousDateRejected => RejectedWith(payload.previous_date.val)

\* C7 as amended: a date string is accepted exactly if, stripped, it is a day of
\* one or two digits (1..9 or 01..31), a month abbreviation in any letter case and
\* a four-digit year naming a date; every other string is rejected with the
\* message holding the original, unstripped value.
C7_LenientFormat ==
    /\ pc \notin {"idle", "report_date"} =>
          /\ ReportDateAccepted <=> LenientDate(Strip(payload.report_date))
          /\ ReportDateAccepted \/ ReportDateRejected
    /\ ReportDateRejected => RejectedWith(payload.report_date)
    /\ (PreviousDateParsed /\ pc # "previous_date") =>
          /\ PreviousDateAccepted <=> LenientDate(Strip(payload.previous_date.val))
          /\ PreviousDateAccepted \/ PreviousDateRejected
    /\ PreviousDateRejected => RejectedWith(payload.previous_date.val)

\* "31-AUG-2019" with whitespace around it is rejected, the message holding it
\* as sent
C7_Witness ==
    /\ ReportDateRejected
    /\ Strip(payload.report_date) = <<"3","1","-","A","U","G","-","2","0","1","9">>
    /\ payload.report_date # Strip(payload.report_date)
    /\ RejectedWith(payload.report_date)

(***************************************************************************)
(* C8  validate_country.                                                   *)
(***************************************************************************)
\* validate_country has run on the request in hand
CountryDone == pc = "validated"
CountryError ==
    \E i \in 1..Len(errors) : errors[i] = [loc |-> "country", msg |-> MsgCountry]

\* s holds no lower-case letter and no whitespace at either end
UpperTrimmed(s) ==
    /\ \A i \in 1..Len(s) : s[i] \notin Range(LowerLetters)
    /\ s # <<>> => (s[1] \notin Whitespace /\ s[Len(s)] \notin Whitespace)

\* C8: the country is accepted exactly when, trimmed and in upper case, it is 2
\* or 3 characters long, whatever the characters; the trimmed upper-case string
\* is then stored ("sg" as "SG"), and otherwise the country message is raised
\* ("s" is rejected).
C8_Country ==
    CountryDone =>
        LET vv == Upper(Strip(payload.country))
        IN  /\ "country" \in DOMAIN values <=> Len(vv) \in {2, 3}
            /\ "country" \in DOMAIN values =>
                  (values.country = vv /\ UpperTrimmed(values.country) /\ ~CountryError)
            /\ "country" \notin DOMAIN values => CountryError
            /\ Strip(payload.country) = <<"s","g">> => values.country = <<"S","G">>
            /\ payload.country = <<"s">> => CountryError

\* "sg" with whitespace around it has been stored as "SG"
C8_Witness ==
    /\ CountryDone
    /\ payload.country # <<"s","g">>
    /\ Strip(payload.country) = <<"s","g">>
    /\ "country" \in DOMAIN values
    /\ values.country = <<"S","G">>

(***************************************************************************)
(* C9  Columns and meta of the response.                                   *)
(***************************************************************************)
\* C9: the response to a valid request has the columns line, metric, value and a
\* meta of exactly four keys: report_date as sent, previous_date as sent or null
\* when absent or blank, the normalized lcr_lines, the trimmed upper-case country.
C9_Meta ==
    ValidRequest =>
        /\ resp.status = 200
        /\ resp.columns = <<"line", "metric", "value">>
        /\ DOMAIN resp.meta = {"report_date", "previous_date", "lcr_lines", "country"}
        /\ resp.meta.report_date = payload.report_date
        /\ resp.meta.previous_date =
              (IF PreviousNotProvided THEN None ELSE payload.previous_date)
        /\ resp.meta.lcr_lines =
              Join([i \in 1..Len(Pieces(payload.lcr_lines)) |->
                        Strip(Pieces(payload.lcr_lines)[i])])
        /\ resp.meta.country = Upper(Strip(payload.country))

\* a request with whitespace around report_date, a blank previous_date and
\* blanks in lcr_lines has been answered
C9_Witness ==
    /\ ValidRequest
    /\ resp.status = 200
    /\ resp.meta.report_date # Strip(resp.meta.report_date)
    /\ payload.previous_date.some
    /\ resp.meta.previous_date = None
    /\ resp.meta.lcr_lines # payload.lcr_lines

====
